---------------------------- MODULE Spec2Model ----------------------------
(***************************************************************************)
(* A model of ozzy-post-core: the CSV importer (header normalizer, field   *)
(* suggester, row mapper, mapping validator, the CSVImporter component)    *)
(* and the server-side import orchestrator saveImportedPosts with the      *)
(* recompute collaborator recomputeAnalytics.                              *)
(*                                                                         *)
(* Four specifications share the variables below:                          *)
(*   Spec            the server: saveImportedPosts calls, one at a time,   *)
(*                   against the datastore; every datastore operation may  *)
(*                   fail;                                                 *)
(*   SpecConcurrent  the server: two saveImportedPosts calls that may      *)
(*                   overlap, on rows naming the same post;                *)
(*   SpecImporter    the CSVImporter component: file selections, parse     *)
(*                   completions, mapping edits, submissions;              *)
(*   SpecPure        the pure functions applied to inputs drawn from       *)
(*                   bounded sets.                                         *)
(*                                                                         *)
(* Strings the code inspects character by character (headers, cells, post  *)
(* ids) are sequences of one-character strings.  A nullable value is a     *)
(* sequence of length at most one: Null is <<>>, Some(v) is <<v>>.         *)
(***************************************************************************)
EXTENDS Integers, Sequences, FiniteSets, TLC

VARIABLES
    \* ---- the datastore (prisma) ----
    users,          \* set of usernames of the User table
    imports,        \* Import table: sequence of records, id = index
    posts,          \* Post table: sequence of records, id = index
    snapshots,      \* MetricsSnapshot table: sequence of records
    runs,           \* RecomputeRun table: sequence of records, id = index
    clock,          \* the datastore's clock (Import.imported_at default now())
    \* ---- the server action ----
    call,           \* per saveImportedPosts invocation: its position and locals
    \* ---- the CSVImporter component ----
    fileName, headers, rows, mapping, parseError, importResult, isPending,
    parsing,        \* per file name, the Papa.parse jobs started and not yet completed
    sent,           \* the payload last handed to saveImportedPosts (Null before)
    nSelected,      \* number of handleFile calls so far
    overlapped,     \* history: a file was selected while a parse was in flight
    \* ---- pure functions ----
    pfn,            \* which function is applied
    parg,           \* its input
    pres            \* the results so far (norm is applied twice)

serverVars   == <<users, imports, posts, snapshots, runs, clock, call>>
importerVars == <<fileName, headers, rows, mapping, parseError, importResult,
                  isPending, parsing, sent, nSelected, overlapped>>
pureVars     == <<pfn, parg, pres>>
vars         == <<serverVars, importerVars, pureVars>>

\* ------------------------------------------------------------------------
\* Bounds of the model
\* ------------------------------------------------------------------------
MaxLen == 3         \* longest header string fed to norm
MaxCell == 3        \* longest cell string fed to toNumber / mapCsvRow
MaxRows == 3        \* most rows in one saveImportedPosts payload
MaxSelected == 3    \* most file selections in one importer run

\* ------------------------------------------------------------------------
\* Nullable values and characters
\* ------------------------------------------------------------------------
Null == <<>>
Some(v) == <<v>>
IsNull(o) == o = <<>>
Val(o) == o[1]

LowerSeq == <<"a","b","c","d","e","f","g","h","i","j","k","l","m",
              "n","o","p","q","r","s","t","u","v","w","x","y","z">>
UpperSeq == <<"A","B","C","D","E","F","G","H","I","J","K","L","M",
              "N","O","P","Q","R","S","T","U","V","W","X","Y","Z">>
DigitSeq == <<"0","1","2","3","4","5","6","7","8","9">>
Range(s) == { s[i] : i \in DOMAIN s }
Whitespace == {" ", "\t"}                       \* \s, and what trim() strips
WordChars == Range(LowerSeq) \cup Range(UpperSeq) \cup Range(DigitSeq) \cup {"_"}  \* \w

\* String.prototype.trim
RECURSIVE TrimStart(_)
TrimStart(s) ==
    IF s = <<>> THEN s
    ELSE IF Head(s) \in Whitespace THEN TrimStart(Tail(s)) ELSE s
RECURSIVE TrimEnd(_)
TrimEnd(s) ==
    IF s = <<>> THEN s
    ELSE IF s[Len(s)] \in Whitespace THEN TrimEnd(SubSeq(s, 1, Len(s) - 1)) ELSE s
Trim(s) == TrimEnd(TrimStart(s))

\* String.prototype.toLowerCase
ToLowerChar(c) ==
    IF c \in Range(UpperSeq)
    THEN LowerSeq[CHOOSE i \in DOMAIN UpperSeq : UpperSeq[i] = c]
    ELSE c
ToLowerCase(s) == [i \in DOMAIN s |-> ToLowerChar(s[i])]

\* s.replace(/[C]+/g, " "): every maximal run of characters of C becomes one space
RECURSIVE DropWhile(_, _)
DropWhile(s, C) ==
    IF s = <<>> THEN s
    ELSE IF Head(s) \in C THEN DropWhile(Tail(s), C) ELSE s
RECURSIVE ReplaceRuns(_, _)
ReplaceRuns(s, C) ==
    IF s = <<>> THEN s
    ELSE IF Head(s) \in C THEN <<" ">> \o ReplaceRuns(DropWhile(Tail(s), C), C)
    ELSE <<Head(s)>> \o ReplaceRuns(Tail(s), C)

\* s.replace(/[C]/g, ""): every character of C is removed
RemoveChars(s, C) == SelectSeq(s, LAMBDA c : c \notin C)

\* norm, analytics.ts 78-85
normKept(c) == c \in WordChars \/ c \in Whitespace \/ c = "%"      \* [^\w\s%] is removed
norm(s) ==
    LET s1 == Trim(s)
        s2 == ToLowerCase(s1)
        s3 == ReplaceRuns(s2, Whitespace)
        s4 == ReplaceRuns(s3, {"_", "-"})
    IN  SelectSeq(s4, normKept)

\* ------------------------------------------------------------------------
\* Numbers: a finite decimal is [m |-> mantissa, e |-> number of decimals],
\* the value m * 10^(-e), with no trailing zero decimal.
\* ------------------------------------------------------------------------
RECURSIVE Normalise(_, _)
Normalise(m, e) ==
    IF e > 0 /\ m % 10 = 0 THEN Normalise(m \div 10, e - 1) ELSE [m |-> m, e |-> e]
Num(n) == [m |-> n, e |-> 0]

DigitVal(c) == (CHOOSE i \in DOMAIN DigitSeq : DigitSeq[i] = c) - 1
RECURSIVE DigitsValue(_)
DigitsValue(s) ==
    IF s = <<>> THEN 0
    ELSE 10 * DigitsValue(SubSeq(s, 1, Len(s) - 1)) + DigitVal(s[Len(s)])

\* Number(string) of JavaScript on strings of digits, '.', '+', '-', white space
\* and other characters: white space is stripped from both ends, the empty
\* string is 0, a signed decimal literal (digits, at most one '.', at least one
\* digit) is its value, anything else is NaN (Null here).  The exponent, hex and
\* Infinity forms need characters that no input of this model holds.
Number(s) ==
    LET t == Trim(s)
        signed == t # <<>> /\ Head(t) \in {"-", "+"}
        body == IF signed THEN Tail(t) ELSE t
        digits == RemoveChars(body, {"."})
        dots == Len(body) - Len(digits)
        dot == IF dots = 1 THEN CHOOSE i \in DOMAIN body : body[i] = "." ELSE Len(body) + 1
        decimals == IF dots = 1 THEN Len(body) - dot ELSE 0
        mag == DigitsValue(digits)
    IN  IF t = <<>> THEN Some(Num(0))
        ELSE IF digits # <<>> /\ dots <= 1 /\ \A i \in DOMAIN digits : digits[i] \in Range(DigitSeq)
        THEN Some(Normalise(IF signed /\ Head(t) = "-" THEN 0 - mag ELSE mag, decimals))
        ELSE Null

\* toNumber, analytics.ts 87-96; raw is a nullable string
toNumber(raw) ==
    IF IsNull(raw) THEN Null
    ELSE LET s == Trim(Val(raw))
         IN  IF s = <<>> THEN Null
             ELSE LET cleaned == RemoveChars(RemoveChars(s, {","}), {"%"})
                  IN  Number(cleaned)      \* Null when not finite

\* ------------------------------------------------------------------------
\* Field keys, mappings, the row mapper
\* ------------------------------------------------------------------------
EXPECTED_FIELDS == <<"postId", "text", "createdAt", "likes", "reposts", "replies",
                     "quotes", "impressions", "engagementRate", "clicks">>
FieldKeys == Range(EXPECTED_FIELDS)
NumericKeys == {"likes", "reposts", "replies", "quotes", "impressions",
                "engagementRate", "clicks"}

emptyMapping == [k \in FieldKeys |-> <<>>]

\* the closure get of mapCsvRow, analytics.ts 147-154
get(row, m, k) ==
    LET h == m[k]
    IN  IF h = <<>> THEN Null
        ELSE IF h \notin DOMAIN row THEN Null
        ELSE LET s == Trim(row[h])
             IN  IF s # <<>> THEN Some(s) ELSE Null

\* mapCsvRow, analytics.ts 146-168
mapCsvRow(row, m) ==
    [ postId         |-> get(row, m, "postId"),
      text           |-> get(row, m, "text"),
      createdAt      |-> get(row, m, "createdAt"),
      likes          |-> toNumber(get(row, m, "likes")),
      reposts        |-> toNumber(get(row, m, "reposts")),
      replies        |-> toNumber(get(row, m, "replies")),
      quotes         |-> toNumber(get(row, m, "quotes")),
      impressions    |-> toNumber(get(row, m, "impressions")),
      engagementRate |-> toNumber(get(row, m, "engagementRate")),
      clicks         |-> toNumber(get(row, m, "clicks")) ]

\* ------------------------------------------------------------------------
\* Text features and the heuristic classifier (saveImportedPosts, actions.ts 87-103)
\* ------------------------------------------------------------------------
\* String.prototype.includes
IsSubstring(w, s) ==
    \E i \in 0..(Len(s) - Len(w)) : SubSeq(s, i + 1, i + Len(w)) = w

CountChar(s, c) == Len(SelectSeq(s, LAMBDA x : x = c))

\* text.split(/\s+/).length: one more than the number of maximal white-space runs
RECURSIVE WsRuns(_)
WsRuns(s) ==
    IF s = <<>> THEN 0
    ELSE IF Head(s) \in Whitespace THEN 1 + WsRuns(DropWhile(Tail(s), Whitespace))
    ELSE WsRuns(Tail(s))
wordCount(text) == 1 + WsRuns(text)

\* mutant of formatTag: the first matching rule decides, later ones do not override
formatTagFirstMatch(text) ==
    LET lowerText == ToLowerCase(text)
        has(w) == IsSubstring(w, lowerText)
    IN  IF has(<<"v","s">>) \/ has(<<"c","o","m","p","a","r","e","d"," ","t","o">>) THEN "comparison"
        ELSE IF has(<<"m","i","l","e","s","t","o","n","e">>) \/ has(<<"f","o","l","l","o","w","e","r","s">>) THEN "milestone"
        ELSE IF IsSubstring(<<"?">>, text) THEN "question"
        ELSE IF has(<<"1",".">>) \/ has(<<"-"," ">>) THEN "list"
        ELSE IF has(<<"h","o","w"," ","t","o">>) \/ has(<<"t","i","p",":">>) THEN "tip"
        ELSE IF has(<<"t","h","r","e","a","d">>) THEN "story"
        ELSE IF has(<<"c","l","i","c","k">>) \/ has(<<"l","i","n","k"," ","i","n">>) THEN "cta"
        ELSE "standard"

\* the override chain of actions.ts 95-103: each matching rule overwrites the tag
formatTag(text) ==
    LET lowerText == ToLowerCase(text)
        has(w) == IsSubstring(w, lowerText)
        t0 == "standard"
        t1 == IF has(<<"v","s">>) \/ has(<<"c","o","m","p","a","r","e","d"," ","t","o">>)
              THEN "comparison" ELSE t0
        t2 == IF has(<<"m","i","l","e","s","t","o","n","e">>) \/ has(<<"f","o","l","l","o","w","e","r","s">>)
              THEN "milestone" ELSE t1
        t3 == IF IsSubstring(<<"?">>, text) THEN "question" ELSE t2
        t4 == IF has(<<"1",".">>) \/ has(<<"-"," ">>) THEN "list" ELSE t3
        t5 == IF has(<<"h","o","w"," ","t","o">>) \/ has(<<"t","i","p",":">>) THEN "tip" ELSE t4
        t6 == IF has(<<"t","h","r","e","a","d">>) THEN "story" ELSE t5
        t7 == IF has(<<"c","l","i","c","k">>) \/ has(<<"l","i","n","k"," ","i","n">>) THEN "cta" ELSE t6
    IN  t7

\* ------------------------------------------------------------------------
\* The server action saveImportedPosts and recomputeAnalytics
\* ------------------------------------------------------------------------
BATCH_SIZE == 2     \* actions.ts 73 has 50; scaled so that MaxRows rows span two batches

CallIds == {"c1", "c2"}     \* two invocations: one after the other, or overlapping

\* new Date(s).getTime(): the instant of a date string, Null for an Invalid Date.
\* Of the strings this model submits, the four-digit ISO year form is a valid
\* date (its instant is counted in years); the others are not.
ParseDate(s) ==
    IF Len(s) = 4 /\ \A i \in DOMAIN s : s[i] \in Range(DigitSeq)
    THEN Some(DigitsValue(s)) ELSE Null

\* mutant of xPostIdOf: the id is used as submitted, without trim()
xPostIdOfUntrimmed(row) == IF IsNull(row.postId) THEN <<>> ELSE Val(row.postId)

\* row.postId?.trim(); undefined and "" are both falsy and both <<>> here
xPostIdOf(row) == IF IsNull(row.postId) THEN <<>> ELSE Trim(Val(row.postId))

\* the two early returns of the row callback, actions.ts 83-85
rowSkipped(row) ==
    \/ xPostIdOf(row) = <<>>
    \/ IsNull(row.createdAt) \/ Val(row.createdAt) = <<>>
    \/ IsNull(ParseDate(Val(row.createdAt)))

\* row.text ?? ''
textOf(row) == IF IsNull(row.text) THEN <<>> ELSE Val(row.text)

\* v ?? 0
orZero(v) == IF IsNull(v) THEN Num(0) ELSE Val(v)

\* the fields written by both branches of prisma.post.upsert, actions.ts 108-117
postFields(row) ==
    LET text == textOf(row)
    IN  [ text          |-> text,
          created_at    |-> Val(ParseDate(Val(row.createdAt))),
          char_count    |-> Len(text),
          word_count    |-> wordCount(text),
          has_link      |-> IsSubstring(<<"h","t","t","p">>, text),
          hashtag_count |-> CountChar(text, "#"),
          mention_count |-> CountChar(text, "@"),
          format_tag    |-> formatTag(text) ]

PostIdOf(ps, x) == CHOOSE i \in DOMAIN ps : ps[i].x_post_id = x

\* prisma.post.upsert keyed by the unique x_post_id, actions.ts 106-131
upsertPost(ps, row) ==
    LET x == xPostIdOf(row)
        f == postFields(row)
    IN  IF \E i \in DOMAIN ps : ps[i].x_post_id = x
        THEN [ps EXCEPT ![PostIdOf(ps, x)] =
                 [x_post_id |-> x, user_id |-> @.user_id, has_media |-> @.has_media,
                  text |-> f.text, created_at |-> f.created_at, char_count |-> f.char_count,
                  word_count |-> f.word_count, has_link |-> f.has_link,
                  hashtag_count |-> f.hashtag_count, mention_count |-> f.mention_count,
                  format_tag |-> f.format_tag]]
        ELSE Append(ps,
                 [x_post_id |-> x, user_id |-> "default", has_media |-> FALSE,
                  text |-> f.text, created_at |-> f.created_at, char_count |-> f.char_count,
                  word_count |-> f.word_count, has_link |-> f.has_link,
                  hashtag_count |-> f.hashtag_count, mention_count |-> f.mention_count,
                  format_tag |-> f.format_tag])

\* mutant of snapshotOf: the captured time is the row's own timestamp
snapshotOfRowTime(row, postId, importId, importedAt) ==
    [ post_id          |-> postId,
      import_id        |-> importId,
      captured_at      |-> Val(ParseDate(Val(row.createdAt))),
      like_count       |-> orZero(row.likes),
      repost_count     |-> orZero(row.reposts),
      reply_count      |-> orZero(row.replies),
      quote_count      |-> orZero(row.quotes),
      impression_count |-> orZero(row.impressions),
      engagement_rate  |-> orZero(row.engagementRate),
      clicks           |-> orZero(row.clicks) ]

\* the element pushed on snapshotsToCreate, actions.ts 134-145
snapshotOf(row, postId, importId, importedAt) ==
    [ post_id          |-> postId,
      import_id        |-> importId,
      captured_at      |-> importedAt,
      like_count       |-> orZero(row.likes),
      repost_count     |-> orZero(row.reposts),
      reply_count      |-> orZero(row.replies),
      quote_count      |-> orZero(row.quotes),
      impression_count |-> orZero(row.impressions),
      engagement_rate  |-> orZero(row.engagementRate),
      clicks           |-> orZero(row.clicks) ]

\* the Import record of actions.ts 51-58; fileName || 'import.csv'
importRecordOf(fname, nRows, now) ==
    [ user_id      |-> "default",
      filename     |-> IF IsNull(fname) \/ Val(fname) = "" THEN "import.csv" ELSE Val(fname),
      row_count    |-> nRows,
      source_label |-> "X Analytics Export",
      imported_at  |-> now ]

Min(a, b) == IF a < b THEN a ELSE b

\* mutant of batchOf: the slice has no upper end, all remaining rows are one batch
batchOfRest(rs, i) == (i + 1)..Len(rs)

\* rows.slice(i, i + BATCH_SIZE), as the 1-based indices of its rows
batchOf(rs, i) == (i + 1)..Min(i + BATCH_SIZE, Len(rs))

idleCall ==
    [ pc |-> "idle", fileName |-> Null, rows |-> <<>>, importId |-> 0, i |-> 0,
      pending |-> {}, snapshotsToCreate |-> <<>>, runId |-> 0, runError |-> Null,
      result |-> Null, logged |-> Null,
      writes |-> <<>>,      \* history: the datastore writes of this call that completed
      rejected |-> {} ]     \* history: the datastore operations of this call that rejected

\* mutant of failed: the catch block rethrows, the call has no result
failedRethrows(cr, message) == [cr EXCEPT !.pc = "done"]

\* the catch block of saveImportedPosts, actions.ts 164-168
failed(cr, message) ==
    [cr EXCEPT !.pc = "done", !.result = Some([success |-> FALSE, error |-> message])]

\* mutant of succeeded: the success line logs the number of submitted rows
succeededLogsRowCount(cr) ==
    [cr EXCEPT !.pc = "done",
               !.logged = Some(Len(cr.rows)),
               !.result = Some([success |-> TRUE, importId |-> cr.importId])]

\* the end of the try block, actions.ts 159-163
succeeded(cr) ==
    [cr EXCEPT !.pc = "done",
               !.logged = Some(Len(cr.snapshotsToCreate)),
               !.result = Some([success |-> TRUE, importId |-> cr.importId])]

\* The batch loop from offset i up to its next await (actions.ts 75-78, 150-157):
\* the batch's accepted rows each issue their upsert and Promise.all waits for
\* them; a batch with no accepted row resolves without a datastore call; after
\* the last batch createMany is issued if there is a snapshot, else recompute
\* starts with its recomputeRun.create.
RECURSIVE proceed(_, _)
proceed(cr, i) ==
    IF i < Len(cr.rows)
    THEN LET issued == { j \in batchOf(cr.rows, i) : ~rowSkipped(cr.rows[j]) }
         IN  IF issued = {} THEN proceed(cr, i + BATCH_SIZE)
             ELSE [cr EXCEPT !.pc = "posts", !.i = i, !.pending = issued]
    ELSE IF Len(cr.snapshotsToCreate) > 0
         THEN [cr EXCEPT !.pc = "snap", !.i = i]
         ELSE [cr EXCEPT !.pc = "run_create", !.i = i]

wrote(cr, what) == [cr EXCEPT !.writes = Append(@, what)]
rejectedOp(cr, what) == [cr EXCEPT !.rejected = @ \cup {what}]

\* ---- inputs of the server action ----
row(postId, text, createdAt, likes, clicks) ==
    [ postId |-> postId, text |-> text, createdAt |-> createdAt, likes |-> likes,
      reposts |-> Null, replies |-> Null, quotes |-> Null, impressions |-> Null,
      engagementRate |-> Null, clicks |-> clicks ]

Y2024 == <<"2","0","2","4">>
Y2025 == <<"2","0","2","5">>

\* Rows a client can submit: accepted ones (two of them naming the same post,
\* one with white space around the id), and one row for each way to be skipped.
RowPool ==
    { row(Some(<<"a">>), Some(<<"h","i">>), Some(Y2024), Some(Num(5)), Null),
      row(Some(<<" ","a">>), Some(<<"y","o","?">>), Some(Y2025), Null, Some(Num(1))),
      row(Some(<<"b">>), Null, Some(Y2024), Some(Num(7)), Null),
      row(Null, Some(<<"h","i">>), Some(Y2024), Some(Num(5)), Null),
      row(Some(<<" ">>), Some(<<"h","i">>), Some(Y2024), Null, Null),
      row(Some(<<"b">>), Some(<<"h","i">>), Null, Null, Null),
      row(Some(<<"a">>), Some(<<"h","i">>), Some(<<"n","/","a">>), Some(Num(5)), Null) }

FileNames == {Null, Some("posts.csv")}

SeqsUpTo(S, n) == UNION { [1..k -> S] : k \in 0..n }

\* ---- the steps of one invocation c ----
\* saveImportedPosts is called: it runs up to its first await, the user upsert
Start(c, Names, Payloads) ==
    /\ call[c].pc = "idle"
    /\ \E fname \in Names, rs \in Payloads :
          call' = [call EXCEPT ![c] = [idleCall EXCEPT !.pc = "user", !.fileName = fname, !.rows = rs]]
    /\ UNCHANGED <<users, imports, posts, snapshots, runs, clock>>

\* prisma.user.upsert resolves; prisma.import.create is issued (actions.ts 44-51)
UserUpsertOk(c) ==
    /\ call[c].pc = "user"
    /\ users' = users \cup {"default"}
    /\ call' = [call EXCEPT ![c] = wrote([@ EXCEPT !.pc = "import"], "user")]
    /\ UNCHANGED <<imports, posts, snapshots, runs, clock>>

UserUpsertFail(c) ==
    /\ call[c].pc = "user"
    /\ call' = [call EXCEPT ![c] = failed(rejectedOp(@, "user.upsert"), "user.upsert")]
    /\ UNCHANGED <<users, imports, posts, snapshots, runs, clock>>

\* prisma.import.create resolves; the batch loop starts (actions.ts 51-78)
ImportCreateOk(c) ==
    /\ call[c].pc = "import"
    /\ imports' = Append(imports, importRecordOf(call[c].fileName, Len(call[c].rows), clock))
    /\ clock' = clock + 1
    /\ call' = [call EXCEPT ![c] =
                   proceed(wrote([@ EXCEPT !.importId = Len(imports) + 1], "import"), 0)]
    /\ UNCHANGED <<users, posts, snapshots, runs>>

ImportCreateFail(c) ==
    /\ call[c].pc = "import"
    /\ call' = [call EXCEPT ![c] = failed(rejectedOp(@, "import.create"), "import.create")]
    /\ UNCHANGED <<users, imports, posts, snapshots, runs, clock>>

\* the upsert of row j resolves: its callback pushes the snapshot; when it was
\* the batch's last one and Promise.all is still awaited, the loop goes on
\* (actions.ts 106-147).  The callback also runs when the call has returned.
UpsertOk(c, j) ==
    /\ j \in call[c].pending
    /\ LET cr == call[c]
           ps == upsertPost(posts, cr.rows[j])
           snap == snapshotOf(cr.rows[j], PostIdOf(ps, xPostIdOf(cr.rows[j])),
                              cr.importId, imports[cr.importId].imported_at)
           cr1 == wrote([cr EXCEPT !.pending = @ \ {j},
                                   !.snapshotsToCreate = Append(@, snap)], "post")
       IN  /\ posts' = ps
           /\ call' = [call EXCEPT ![c] =
                          IF cr.pc = "posts" /\ cr1.pending = {}
                          THEN proceed(cr1, cr.i + BATCH_SIZE) ELSE cr1]
    /\ UNCHANGED <<users, imports, snapshots, runs, clock>>

\* the upsert of row j rejects: Promise.all rejects at once and the catch block
\* returns, the batch's other upserts still in flight (actions.ts 78, 164-168)
UpsertFail(c, j) ==
    /\ j \in call[c].pending
    /\ LET cr1 == rejectedOp([call[c] EXCEPT !.pending = @ \ {j}], "post.upsert")
       IN  call' = [call EXCEPT ![c] =
                       IF cr1.pc = "posts" THEN failed(cr1, "post.upsert") ELSE cr1]
    /\ UNCHANGED <<users, imports, posts, snapshots, runs, clock>>

\* mutant of CreateManyOk: the call returns success without invoking recompute
CreateManyOkThenReturn(c) ==
    /\ call[c].pc = "snap"
    /\ snapshots' = snapshots \o call[c].snapshotsToCreate
    /\ call' = [call EXCEPT ![c] = succeeded(wrote(@, "snapshot"))]
    /\ UNCHANGED <<users, imports, posts, runs, clock>>

\* prisma.metricsSnapshot.createMany resolves; recomputeAnalytics is called and
\* issues its recomputeRun.create (actions.ts 150-157, analytics.ts 7-16)
CreateManyOk(c) ==
    /\ call[c].pc = "snap"
    /\ snapshots' = snapshots \o call[c].snapshotsToCreate
    /\ call' = [call EXCEPT ![c] = wrote([@ EXCEPT !.pc = "run_create"], "snapshot")]
    /\ UNCHANGED <<users, imports, posts, runs, clock>>

CreateManyFail(c) ==
    /\ call[c].pc = "snap"
    /\ call' = [call EXCEPT ![c] = failed(rejectedOp(@, "metricsSnapshot.createMany"), "metricsSnapshot.createMany")]
    /\ UNCHANGED <<users, imports, posts, snapshots, runs, clock>>

\* recomputeRun.create resolves; the update to SUCCESS is issued (analytics.ts 11-25)
RunCreateOk(c) ==
    /\ call[c].pc = "run_create"
    /\ runs' = Append(runs, [status |-> "STARTED", error_text |-> Null])
    /\ call' = [call EXCEPT ![c] =
                   wrote([@ EXCEPT !.pc = "run_success", !.runId = Len(runs) + 1], "run")]
    /\ UNCHANGED <<users, imports, posts, snapshots, clock>>

\* recomputeRun.create rejects outside recomputeAnalytics' try: the error
\* reaches the catch block of saveImportedPosts (analytics.ts 11, actions.ts 157-168)
RunCreateFail(c) ==
    /\ call[c].pc = "run_create"
    /\ call' = [call EXCEPT ![c] = failed(rejectedOp(@, "recomputeRun.create"), "recomputeRun.create")]
    /\ UNCHANGED <<users, imports, posts, snapshots, runs, clock>>

\* the update to SUCCESS resolves: recomputeAnalytics returns and
\* saveImportedPosts returns success (analytics.ts 25-34, actions.ts 159-163)
RunSuccessOk(c) ==
    /\ call[c].pc = "run_success"
    /\ runs' = [runs EXCEPT ![call[c].runId].status = "SUCCESS"]
    /\ call' = [call EXCEPT ![c] = succeeded(wrote(@, "run"))]
    /\ UNCHANGED <<users, imports, posts, snapshots, clock>>

\* the update to SUCCESS rejects: recomputeAnalytics' catch issues the update
\* to FAILED (analytics.ts 35-38)
RunSuccessFail(c) ==
    /\ call[c].pc = "run_success"
    /\ call' = [call EXCEPT ![c] =
                   rejectedOp([@ EXCEPT !.pc = "run_failed",
                                        !.runError = Some("recomputeRun.update")],
                              "recomputeRun.update")]
    /\ UNCHANGED <<users, imports, posts, snapshots, runs, clock>>

\* the update to FAILED resolves: recomputeAnalytics returns {success: false},
\* which saveImportedPosts ignores (analytics.ts 38-46, actions.ts 157-163)
RunFailedOk(c) ==
    /\ call[c].pc = "run_failed"
    /\ runs' = [runs EXCEPT ![call[c].runId] =
                   [status |-> "FAILED", error_text |-> call[c].runError]]
    /\ call' = [call EXCEPT ![c] = succeeded(wrote(@, "run"))]
    /\ UNCHANGED <<users, imports, posts, snapshots, clock>>

\* the update to FAILED rejects inside the catch: the error leaves
\* recomputeAnalytics and reaches the catch block of saveImportedPosts
RunFailedFail(c) ==
    /\ call[c].pc = "run_failed"
    /\ call' = [call EXCEPT ![c] = failed(rejectedOp(@, "recomputeRun.update"), "recomputeRun.update")]
    /\ UNCHANGED <<users, imports, posts, snapshots, runs, clock>>

\* ---- the importer and the pure functions at rest ----
importerIdle ==
    /\ fileName = Null /\ headers = <<>> /\ rows = <<>> /\ mapping = emptyMapping
    /\ parseError = Null /\ importResult = "idle" /\ isPending = FALSE
    /\ parsing = [n \in {"a.csv", "b.csv", "c.csv", "d.csv", "e.csv", "f.csv"} |-> 0]
    /\ sent = Null /\ nSelected = 0 /\ overlapped = FALSE

pureIdle == pfn = "none" /\ parg = <<>> /\ pres = <<>>

datastoreEmpty ==
    /\ users = {} /\ imports = <<>> /\ posts = <<>> /\ snapshots = <<>> /\ runs = <<>>
    /\ clock = 1

serverIdle == datastoreEmpty /\ call = [c \in CallIds |-> idleCall]

\* every step of invocation c after its start: a datastore operation it
\* awaits (or has left in flight) resolves or rejects
Step(c) ==
    \/ UserUpsertOk(c) \/ UserUpsertFail(c)
    \/ ImportCreateOk(c) \/ ImportCreateFail(c)
    \/ \E j \in call[c].pending : UpsertOk(c, j) \/ UpsertFail(c, j)
    \/ CreateManyOk(c) \/ CreateManyFail(c)
    \/ RunCreateOk(c) \/ RunCreateFail(c)
    \/ RunSuccessOk(c) \/ RunSuccessFail(c)
    \/ RunFailedOk(c) \/ RunFailedFail(c)

\* ---- the server specification: one import of any rows of the pool ----
Init == serverIdle /\ importerIdle /\ pureIdle

Next ==
    /\ UNCHANGED <<importerVars, pureVars>>
    /\ \/ Start("c1", FileNames, SeqsUpTo(RowPool, MaxRows))
       \/ Step("c1")

Spec == Init /\ [][Next]_vars

\* ---- two imports, one after the other or overlapping, of rows that name
\* the same post or are skipped ----
MaxRowsEach == 2    \* most rows in each payload of SpecConcurrent

SharedPool ==
    { row(Some(<<"a">>), Some(<<"h","i">>), Some(Y2024), Some(Num(5)), Null),
      row(Some(<<" ","a">>), Some(<<"y","o","?">>), Some(Y2025), Null, Some(Num(1))),
      row(Null, Some(<<"h","i">>), Some(Y2024), Some(Num(5)), Null) }

NextConcurrent ==
    /\ UNCHANGED <<importerVars, pureVars>>
    /\ \E c \in CallIds :
          \/ Start(c, {Some("posts.csv")}, SeqsUpTo(SharedPool, MaxRowsEach))
          \/ Step(c)

SpecConcurrent == Init /\ [][NextConcurrent]_vars


\* ------------------------------------------------------------------------
\* The field suggester and the mapping validator
\* ------------------------------------------------------------------------
\* the synonym table of suggestedHeaderForField, analytics.ts 101-112
candidates ==
    [ postId |-> <<
          <<"p", "o", "s", "t", " ", "i", "d">>,
          <<"p", "o", "s", "t", "i", "d">>,
          <<"i", "d">>,
          <<"t", "w", "e", "e", "t", " ", "i", "d">>,
          <<"t", "w", "e", "e", "t", "i", "d">>,
          <<"s", "t", "a", "t", "u", "s", " ", "i", "d">>,
          <<"s", "t", "a", "t", "u", "s", "i", "d">>
        >>,
      text |-> <<
          <<"t", "e", "x", "t">>,
          <<"c", "o", "n", "t", "e", "n", "t">>,
          <<"b", "o", "d", "y">>,
          <<"m", "e", "s", "s", "a", "g", "e">>,
          <<"p", "o", "s", "t">>,
          <<"t", "w", "e", "e", "t", " ", "t", "e", "x", "t">>,
          <<"t", "w", "e", "e", "t">>
        >>,
      createdAt |-> <<
          <<"c", "r", "e", "a", "t", "e", "d", " ", "a", "t">>,
          <<"c", "r", "e", "a", "t", "e", "d">>,
          <<"t", "i", "m", "e", "s", "t", "a", "m", "p">>,
          <<"t", "i", "m", "e">>,
          <<"d", "a", "t", "e">>,
          <<"d", "a", "t", "e", "t", "i", "m", "e">>
        >>,
      likes |-> <<
          <<"l", "i", "k", "e", "s">>,
          <<"l", "i", "k", "e">>,
          <<"f", "a", "v", "o", "r", "i", "t", "e", "s">>,
          <<"f", "a", "v", "o", "u", "r", "i", "t", "e", "s">>
        >>,
      reposts |-> <<
          <<"r", "e", "p", "o", "s", "t", "s">>,
          <<"r", "e", "p", "o", "s", "t">>,
          <<"r", "e", "t", "w", "e", "e", "t", "s">>,
          <<"r", "e", "t", "w", "e", "e", "t">>,
          <<"s", "h", "a", "r", "e", "s">>,
          <<"s", "h", "a", "r", "e">>
        >>,
      replies |-> <<
          <<"r", "e", "p", "l", "i", "e", "s">>,
          <<"r", "e", "p", "l", "y">>,
          <<"c", "o", "m", "m", "e", "n", "t", "s">>,
          <<"c", "o", "m", "m", "e", "n", "t">>
        >>,
      quotes |-> <<
          <<"q", "u", "o", "t", "e", "s">>,
          <<"q", "u", "o", "t", "e">>,
          <<"q", "u", "o", "t", "e", " ", "t", "w", "e", "e", "t", "s">>,
          <<"q", "u", "o", "t", "e", " ", "t", "w", "e", "e", "t">>
        >>,
      impressions |-> <<
          <<"i", "m", "p", "r", "e", "s", "s", "i", "o", "n", "s">>,
          <<"i", "m", "p", "r", "e", "s", "s", "i", "o", "n">>,
          <<"v", "i", "e", "w", "s">>,
          <<"v", "i", "e", "w">>
        >>,
      engagementRate |-> <<
          <<"e", "n", "g", "a", "g", "e", "m", "e", "n", "t", " ", "r", "a", "t", "e">>,
          <<"e", "n", "g", "a", "g", "e", "m", "e", "n", "t", "r", "a", "t", "e">>,
          <<"e", "r">>,
          <<"e", "n", "g", "a", "g", "e", "m", "e", "n", "t", " ", "%">>,
          <<"e", "n", "g", "a", "g", "e", "m", "e", "n", "t", " ", "p", "e", "r", "c", "e", "n", "t">>
        >>,
      clicks |-> <<
          <<"c", "l", "i", "c", "k", "s">>,
          <<"c", "l", "i", "c", "k">>,
          <<"l", "i", "n", "k", " ", "c", "l", "i", "c", "k", "s">>,
          <<"u", "r", "l", " ", "c", "l", "i", "c", "k", "s">>
        >> ]

\* candidates[field].map(norm), analytics.ts 114
wantedOf == [k \in FieldKeys |-> [i \in DOMAIN candidates[k] |-> norm(candidates[k][i])]]

\* Array.prototype.find: the index of the first element satisfying P, 0 if none
FirstIndex(seq, P(_)) ==
    IF \E i \in DOMAIN seq : P(seq[i])
    THEN CHOOSE i \in DOMAIN seq : P(seq[i]) /\ \A j \in 1..(i - 1) : ~P(seq[j])
    ELSE 0

\* mutant of suggestedHeaderForField: header order outranks synonym order
suggestedHeaderForFieldHeaderFirst(field, hs) ==
    LET nHeaders == [i \in DOMAIN hs |-> [raw |-> hs[i], n |-> norm(hs[i])]]
        wanted == wantedOf[field]
        h1 == FirstIndex(nHeaders, LAMBDA h : \E i \in DOMAIN wanted : h.n = wanted[i])
        h2 == FirstIndex(nHeaders, LAMBDA h : \E i \in DOMAIN wanted :
                             IsSubstring(wanted[i], h.n) \/ IsSubstring(h.n, wanted[i]))
    IN  IF h1 # 0 THEN nHeaders[h1].raw
        ELSE IF h2 # 0 THEN nHeaders[h2].raw
        ELSE <<>>

\* suggestedHeaderForField, analytics.ts 98-129
suggestedHeaderForField(field, hs) ==
    LET nHeaders == [i \in DOMAIN hs |-> [raw |-> hs[i], n |-> norm(hs[i])]]
        wanted == wantedOf[field]
        exactHit(w) == FirstIndex(nHeaders, LAMBDA h : h.n = w)
        containsHit(w) == FirstIndex(nHeaders, LAMBDA h : IsSubstring(w, h.n) \/ IsSubstring(h.n, w))
        w1 == FirstIndex(wanted, LAMBDA w : exactHit(w) # 0)
        w2 == FirstIndex(wanted, LAMBDA w : containsHit(w) # 0)
    IN  IF w1 # 0 THEN nHeaders[exactHit(wanted[w1])].raw
        ELSE IF w2 # 0 THEN nHeaders[containsHit(wanted[w2])].raw
        ELSE <<>>

\* mutant of mappingCompleteness: the ignored keys are not filtered out
mappingCompletenessCountsIgnored(m) ==
    LET values == [i \in DOMAIN EXPECTED_FIELDS |-> m[EXPECTED_FIELDS[i]]]
    IN  [ requiredOk    |-> m.postId # <<>> /\ m.text # <<>> /\ m.createdAt # <<>>,
          hasDuplicates |-> Cardinality(Range(values)) # Len(values) ]

\* mutant of mappingCompleteness: text is not required
mappingCompletenessTwoRequired(m) ==
    LET values == [i \in DOMAIN EXPECTED_FIELDS |-> m[EXPECTED_FIELDS[i]]]
        chosen == SelectSeq(values, LAMBDA h : h # <<>>)
    IN  [ requiredOk    |-> m.postId # <<>> /\ m.createdAt # <<>>,
          hasDuplicates |-> Cardinality(Range(chosen)) # Len(chosen) ]

\* mappingCompleteness, analytics.ts 192-198
mappingCompleteness(m) ==
    LET values == [i \in DOMAIN EXPECTED_FIELDS |-> m[EXPECTED_FIELDS[i]]]
        chosen == SelectSeq(values, LAMBDA h : h # <<>>)
        uniqueChosen == Cardinality(Range(chosen))
    IN  [ requiredOk    |-> m.postId # <<>> /\ m.text # <<>> /\ m.createdAt # <<>>,
          hasDuplicates |-> uniqueChosen # Len(chosen) ]

\* ------------------------------------------------------------------------
\* The CSVImporter component
\* ------------------------------------------------------------------------
\* What Papa.parse reports for a file: either the read fails (the error
\* callback), or complete is called with errors, meta.fields (the header row,
\* each header trimmed by transformHeader) and data (one record per data row).
H_PostID == <<"P","o","s","t"," ","I","D">>
H_Text == <<"T","e","x","t">>
H_Date == <<"D","a","t","e">>
H_id == <<"i","d">>
H_tweet == <<"t","w","e","e","t">>
H_Body == <<"B","o","d","y">>
H_time == <<"t","i","m","e">>

papa(name, readError, errors, fields, data) ==
    [ name |-> name, readError |-> readError, errors |-> errors, fields |-> fields, data |-> data ]

Files ==
    { \* a well-formed export with two data rows
      papa("a.csv", Null, <<>>, <<H_PostID, H_Text, H_Date>>,
           << (H_PostID :> <<"1">>) @@ (H_Text :> <<"h","i">>) @@ (H_Date :> Y2024),
              (H_PostID :> <<"2">>) @@ (H_Text :> <<"y","o","?">>) @@ (H_Date :> Y2025) >>),
      \* another well-formed export, other headers, one data row
      papa("e.csv", Null, <<>>, <<H_id, H_Body, H_time>>,
           << (H_id :> <<"9">>) @@ (H_Body :> <<"h","i">>) @@ (H_time :> Y2024) >>),
      \* a malformed file: an error is reported along with the rows parsed so far
      papa("b.csv", Null, <<"Too few fields">>, <<H_id, H_tweet, H_time>>,
           << (H_id :> <<"7">>) >>),
      \* a header row of empty names only: no usable header
      papa("c.csv", Null, <<>>, << <<>> >>, << (<<>> :> <<"x">>) >>),
      \* a header row and no data row
      papa("d.csv", Null, <<>>, <<H_id, H_tweet, H_time>>, <<>>),
      \* a file that cannot be read
      papa("f.csv", Some("read failed"), <<>>, <<>>, <<>>) }

\* the fields the user edits in this model, with every header or "(ignore)"
EditKeys == {"postId", "text"}

hasData == Len(rows) > 0 /\ Len(headers) > 0

\* mappedRows, analytics.ts 185-188
mappedRows == IF ~hasData THEN <<>> ELSE [i \in DOMAIN rows |-> mapCsvRow(rows[i], mapping)]

\* the disabled attribute of the Import button, analytics.ts 473-478
importDisabled ==
    \/ ~hasData
    \/ ~mappingCompleteness(mapping).requiredOk
    \/ mappingCompleteness(mapping).hasDuplicates
    \/ isPending

\* handleFile, analytics.ts 208-212: resetState, setFileName, Papa.parse starts
handleFile(f) ==
    /\ nSelected < MaxSelected
    /\ nSelected' = nSelected + 1
    /\ parseError' = Null
    /\ importResult' = "idle"
    /\ headers' = <<>>
    /\ rows' = <<>>
    /\ mapping' = emptyMapping
    /\ fileName' = Some(f.name)
    /\ parsing' = [parsing EXCEPT ![f.name] = @ + 1]
    /\ overlapped' = (overlapped \/ \E n \in DOMAIN parsing : parsing[n] > 0)
    /\ UNCHANGED <<isPending, sent>>

\* result.data filtered, analytics.ts 222
parsedRowsOf(f) == SelectSeq(f.data, LAMBDA r : DOMAIN r # {})
\* result.meta.fields filtered, analytics.ts 223-224 (Papa.parse with
\* header: true always reports meta.fields)
parsedHeadersOf(f) == SelectSeq(f.fields, LAMBDA h : h # <<>>)

\* the mapping suggested for the parsed headers, analytics.ts 234-238
nextMappingOf(hs) == [k \in FieldKeys |-> suggestedHeaderForField(k, hs)]

\* nextMappingOf of each file's headers, computed once
nextMappingOfFile == [f \in Files |-> nextMappingOf(parsedHeadersOf(f))]

\* the callbacks of Papa.parse, analytics.ts 216-240: the parse of f ends
parseDone(f) ==
    /\ parsing[f.name] > 0
    /\ parsing' = [parsing EXCEPT ![f.name] = @ - 1]
    /\ IF ~IsNull(f.readError)
       THEN /\ parseError' = f.readError
            /\ UNCHANGED <<headers, rows, mapping>>
       ELSE IF Len(f.errors) > 0
       THEN /\ parseError' = Some(f.errors[1])
            /\ UNCHANGED <<headers, rows, mapping>>
       ELSE IF Len(parsedHeadersOf(f)) = 0
       THEN /\ parseError' = Some("No headers detected. Ensure the first row contains column names.")
            /\ UNCHANGED <<headers, rows, mapping>>
       ELSE /\ headers' = parsedHeadersOf(f)
            /\ rows' = parsedRowsOf(f)
            /\ mapping' = nextMappingOfFile[f]
            /\ UNCHANGED parseError
    /\ UNCHANGED <<fileName, importResult, isPending, sent, nSelected, overlapped>>

\* the onChange of a field's select, analytics.ts 434-447 (rendered with data only)
setMapping(k, h) ==
    /\ hasData
    /\ mapping' = [mapping EXCEPT ![k] = h]
    /\ UNCHANGED <<fileName, headers, rows, parseError, importResult, isPending,
                   parsing, sent, nSelected, overlapped>>

\* onImport, analytics.ts 244-253, reached from the enabled button only: the
\* transition starts and saveImportedPosts is invoked with the payload
onImport ==
    /\ ~importDisabled
    /\ importResult' = "idle"
    /\ isPending' = TRUE
    /\ sent' = Some([fileName |-> fileName, mapping |-> mapping, rows |-> mappedRows])
    /\ UNCHANGED <<fileName, headers, rows, mapping, parseError, parsing, nSelected, overlapped>>

\* the server action settles, analytics.ts 253-257: res.success, or not, or a throw
importSettled(ok) ==
    /\ isPending
    /\ isPending' = FALSE
    /\ importResult' = IF ok THEN "ok" ELSE "err"
    /\ UNCHANGED <<fileName, headers, rows, mapping, parseError, parsing, sent,
                   nSelected, overlapped>>

InitImporter == serverIdle /\ importerIdle /\ pureIdle

NextImporter ==
    /\ UNCHANGED <<serverVars, pureVars>>
    /\ \/ \E f \in Files : handleFile(f)
       \/ \E f \in Files : parseDone(f)
       \/ \E k \in EditKeys, h \in Range(headers) \cup {<<>>} : setMapping(k, h)
       \/ onImport
       \/ \E ok \in BOOLEAN : importSettled(ok)

SpecImporter == InitImporter /\ [][NextImporter]_vars

\* ------------------------------------------------------------------------
\* Properties of the server action
\* ------------------------------------------------------------------------
returned(c) == call[c].pc = "done"
success(c) == returned(c) /\ ~IsNull(call[c].result) /\ Val(call[c].result).success
failure(c) == returned(c) /\ ~IsNull(call[c].result) /\ ~Val(call[c].result).success

Count(seq, P(_)) == Len(SelectSeq(seq, P))
SnapshotsOfImport(id) == Count(snapshots, LAMBDA sn : sn.import_id = id)
SnapshotsOfPost(id) == Count(snapshots, LAMBDA sn : sn.post_id = id)

\* a submitted row whose postId is non-blank after trimming and whose createdAt
\* is present and parses to a valid instant
AcceptedRow(r) ==
    /\ r.postId # Null /\ Trim(Val(r.postId)) # <<>>
    /\ r.createdAt # Null /\ ParseDate(Val(r.createdAt)) # Null
AcceptedRows(c) == { j \in DOMAIN call[c].rows : AcceptedRow(call[c].rows[j]) }

WriteOps == {"user.upsert", "import.create", "post.upsert", "metricsSnapshot.createMany"}
RunOps == {"recomputeRun.create", "recomputeRun.update"}

\* C1: a call that returns success has persisted, under its import id, as many
\* MetricsSnapshots as it was given rows with a non-blank postId and a valid
\* createdAt; the other rows cause no Post write (every upsert issued or
\* completed is for an accepted row) and no error (a call fails only when a
\* datastore operation rejected).
C1_SnapshotsAreAcceptedRows ==
    \A c \in CallIds :
        /\ success(c) =>
              SnapshotsOfImport(call[c].importId) = Cardinality(AcceptedRows(c))
        /\ call[c].pending \subseteq AcceptedRows(c)
        /\ Count(call[c].writes, LAMBDA w : w = "post") <= Cardinality(AcceptedRows(c))
        /\ success(c) =>
              Count(call[c].writes, LAMBDA w : w = "post") = Cardinality(AcceptedRows(c))
        /\ failure(c) => call[c].rejected # {}

\* witness of C1: three rows, exactly one of them lacking postId, imported with
\* success and two snapshots persisted
C1_Witness ==
    \E c \in CallIds :
        /\ success(c) /\ Len(call[c].rows) = 3
        /\ Cardinality({ j \in 1..3 : call[c].rows[j].postId = Null }) = 1
        /\ Cardinality(AcceptedRows(c)) = 2
        /\ Len(snapshots) = 2

\* C2 as stated: every count a successful import reports or records (the
\* success log line, the Import record's row_count) is the number of persisted
\* MetricsSnapshots.
C2_Original ==
    \A c \in CallIds :
        success(c) =>
            /\ Val(call[c].logged) = SnapshotsOfImport(call[c].importId)
            /\ imports[call[c].importId].row_count = SnapshotsOfImport(call[c].importId)

\* C2 amended: the count logged by a successful import is the number of
\* persisted MetricsSnapshots, the Import record's row_count is the number of
\* submitted rows, and the returned value carries success and importId only.
C2_LoggedCountIsSnapshots ==
    \A c \in CallIds :
        success(c) =>
            /\ call[c].logged = Some(SnapshotsOfImport(call[c].importId))
            /\ call[c].logged = Some(Cardinality(AcceptedRows(c)))
            /\ imports[call[c].importId].row_count = Len(call[c].rows)
            /\ DOMAIN Val(call[c].result) = {"success", "importId"}

\* witness of C2: three rows, one lacking postId: 2 is logged, 3 is recorded
C2_Witness ==
    \E c \in CallIds :
        /\ success(c) /\ Len(call[c].rows) = 3
        /\ Cardinality({ j \in 1..3 : call[c].rows[j].postId = Null }) = 1
        /\ call[c].logged = Some(2)
        /\ imports[call[c].importId].row_count = 3

\* no call is running and no upsert is in flight
quiescent == \A c \in CallIds : call[c].pc \in {"idle", "done"} /\ call[c].pending = {}

\* the accepted rows of call c that reference external id x, if c returned success
AcceptedFor(c, x) ==
    IF success(c)
    THEN Cardinality({ j \in AcceptedRows(c) : Trim(Val(call[c].rows[j].postId)) = x })
    ELSE 0

\* the same, summed over the calls of S
RECURSIVE AcceptedTotal(_, _)
AcceptedTotal(S, x) ==
    IF S = {} THEN 0
    ELSE LET c == CHOOSE y \in S : TRUE
         IN  AcceptedFor(c, x) + AcceptedTotal(S \ {c}, x)

\* C3 as stated: once the imports are over, there is at most one Post per
\* x_post_id, and each Post has as many MetricsSnapshots as the successful
\* imports had accepted rows referencing its id.
C3_OnePostAndHistory ==
    quiescent =>
        /\ \A p, q \in DOMAIN posts : posts[p].x_post_id = posts[q].x_post_id => p = q
        /\ \A p \in DOMAIN posts :
              SnapshotsOfPost(p) = AcceptedTotal(CallIds, posts[p].x_post_id)

\* support for C3: it holds in every run in which no recomputeRun operation
\* rejected, so only the recompute error path of C5 breaks it
C3_HoldsWithoutRunRejection ==
    (\A c \in CallIds : call[c].rejected \cap RunOps = {}) => C3_OnePostAndHistory

\* C5 as stated: when a step of recomputeAnalytics rejected after the
\* snapshots were persisted, the failure is on
\* the RecomputeRun record, the call returns success with its importId, and the
\* Import, Posts and MetricsSnapshots written stay.
C5_RecomputeFailureIsolated ==
    \A c \in CallIds :
        (/\ returned(c)
         /\ "snapshot" \in Range(call[c].writes)
         /\ call[c].rejected \cap RunOps # {}) =>
            /\ success(c)
            /\ Val(call[c].result).importId = call[c].importId
            /\ call[c].runId \in DOMAIN runs
            /\ runs[call[c].runId].status = "FAILED"
            /\ runs[call[c].runId].error_text # Null
            /\ SnapshotsOfImport(call[c].importId) = Len(call[c].snapshotsToCreate)

\* C6, the state part: a call that is over has a result (it did not throw); if
\* a User, Import, Post or MetricsSnapshot write rejected the result is
\* {success: false, error: <message>}; if the User upsert rejected the call
\* wrote nothing and the datastore holds no Import, Post or MetricsSnapshot.
C6_State ==
    \A c \in CallIds :
        /\ returned(c) => success(c) \/ failure(c)
        /\ (returned(c) /\ call[c].rejected \cap WriteOps # {}) =>
              /\ failure(c)
              /\ DOMAIN Val(call[c].result) = {"success", "error"}
              /\ Val(call[c].result).error \in call[c].rejected
        /\ "user.upsert" \in call[c].rejected =>
              /\ call[c].writes = <<>> /\ call[c].importId = 0
              /\ imports = <<>> /\ posts = <<>> /\ snapshots = <<>>

IsPrefix(a, b) == Len(a) <= Len(b) /\ SubSeq(b, 1, Len(a)) = a

\* C6, the step part: no step, a failing one included, undoes a completed
\* write: users, Imports and MetricsSnapshots are kept as they are, every Post
\* keeps its id and x_post_id, every call keeps its record of completed writes.
C6_NoRollback ==
    /\ users \subseteq users'
    /\ IsPrefix(imports, imports')
    /\ IsPrefix(snapshots, snapshots')
    /\ Len(posts) <= Len(posts')
    /\ \A p \in DOMAIN posts : posts'[p].x_post_id = posts[p].x_post_id
    /\ \A c \in CallIds : call[c].pc # "idle" => IsPrefix(call[c].writes, call'[c].writes)

\* C6: saveImportedPosts never throws, reports a rejected write as
\* {success: false, error}, never as success, rolls nothing back, and writes
\* nothing at all when the default-User upsert rejects.
C6_FailureIsReported == [](C6_State) /\ [][C6_NoRollback]_vars

\* witness of C6: a Post upsert rejected after the Import and another Post of
\* the same batch were written; the call reports the failure and both stay
C6_Witness ==
    \E c \in CallIds :
        /\ failure(c) /\ Val(call[c].result).error = "post.upsert"
        /\ call[c].writes = <<"user", "import", "post">>
        /\ Len(imports) = 1 /\ Len(posts) = 1

\* ------------------------------------------------------------------------
\* Properties of the CSVImporter component
\* ------------------------------------------------------------------------
\* postId, text and createdAt each have a non-empty chosen header and no two
\* field keys are mapped to the same header
ValidMapping(m) ==
    /\ m.postId # <<>> /\ m.text # <<>> /\ m.createdAt # <<>>
    /\ \A k1, k2 \in FieldKeys : (k1 # k2 /\ m[k1] # <<>>) => m[k1] # m[k2]

\* C4, the step part: saveImportedPosts is invoked only from a state with rows
\* and headers loaded, a valid mapping and no import pending, and with the
\* mapping and the mapped rows of that state.
C4_InvokedWhenValid ==
    onImport =>
        /\ Len(rows) > 0 /\ Len(headers) > 0
        /\ ValidMapping(mapping)
        /\ ~isPending
        /\ Val(sent').mapping = mapping
        /\ Len(Val(sent').rows) = Len(rows)

\* C4, the state part: the payload handed to saveImportedPosts has a valid
\* mapping and at least one row
C4_SentIsValid ==
    ~IsNull(sent) => ValidMapping(Val(sent).mapping) /\ Len(Val(sent).rows) > 0

\* C4: after any file loads and mapping edits, saveImportedPosts is invoked
\* only with rows and headers loaded, the three required fields mapped, no
\* header used twice and no import pending; an invalid mapping is never sent.
C4_ValidationGatesImport == [](C4_SentIsValid) /\ [][C4_InvokedWhenValid]_vars

\* witness of C4: an import was submitted after the user edited the mapping
C4_Witness ==
    /\ ~IsNull(sent) /\ isPending
    /\ Val(sent).mapping # nextMappingOf(headers)

\* C7 as stated: wherever parseError is set, headers and rows are empty, the
\* mapping is the empty mapping and import is disabled.
C7_NoDataWithParseError ==
    ~IsNull(parseError) =>
        /\ headers = <<>> /\ rows = <<>>
        /\ mapping = emptyMapping
        /\ importDisabled

\* support for C7: it holds as long as no file was selected during a parse
C7_HoldsWithoutOverlap == ~overlapped => C7_NoDataWithParseError

noErrors(f) == IsNull(f.readError) /\ Len(f.errors) = 0

\* C8 as stated: when a parse that reported no error and no header ends, the
\* component is in the parse-error state with no headers or rows loaded; when a
\* parse that reported headers and no data row ends, the component holds
\* those headers, no rows and no parse error.
C8_HeaderlessVersusEmpty ==
    [][ \A f \in Files :
          (parseDone(f) /\ noErrors(f)) =>
              /\ Len(parsedHeadersOf(f)) = 0 =>
                    ~IsNull(parseError') /\ headers' = <<>> /\ rows' = <<>>
              /\ (Len(parsedHeadersOf(f)) > 0 /\ Len(parsedRowsOf(f)) = 0) =>
                    headers' = parsedHeadersOf(f) /\ rows' = <<>> /\ IsNull(parseError') ]_vars

\* support for C8: it holds for every parse that ends with no other selection
\* made during a parse
C8_HoldsWithoutOverlap ==
    [][ \A f \in Files :
          (parseDone(f) /\ noErrors(f) /\ ~overlapped) =>
              /\ Len(parsedHeadersOf(f)) = 0 =>
                    ~IsNull(parseError') /\ headers' = <<>> /\ rows' = <<>>
              /\ (Len(parsedHeadersOf(f)) > 0 /\ Len(parsedRowsOf(f)) = 0) =>
                    headers' = parsedHeadersOf(f) /\ rows' = <<>> /\ IsNull(parseError') ]_vars

\* ------------------------------------------------------------------------
\* The pure functions on inputs drawn from bounded sets
\* ------------------------------------------------------------------------
\* header characters: a letter of each case, both kinds of white space,
\* underscore, hyphen, another punctuation mark and the percent sign
NormChars == {"a", "B", " ", "\t", "_", "-", "!", "%"}
\* cell characters: digits, the decimal point, the two stripped characters,
\* white space, a sign and a letter
NumChars == {"1", "2", ".", ",", "%", " ", "-", "x"}

H_n == <<"n">>      \* the header of the one cell of a row
H_z == <<"z">>      \* a header the row does not have

\* the mappings tried: every key ignored, every key on the cell, every key on
\* a missing header, and the required keys ignored with the metrics on the cell
MappingInputs ==
    { [k \in FieldKeys |-> <<>>], [k \in FieldKeys |-> H_n], [k \in FieldKeys |-> H_z],
      [k \in FieldKeys |-> IF k \in NumericKeys THEN H_n ELSE <<>>] }

\* texts for the classifier: for every set of rules, a text holding one phrase
\* of each rule of the set and of no other rule, with the first or the second
\* phrase of each rule, in rule order or in the reverse order; and texts in
\* upper case
TagPhrases ==
    << <<<<"v","s">>, <<"c","o","m","p","a","r","e","d"," ","t","o">>>>,
       <<<<"m","i","l","e","s","t","o","n","e">>, <<"f","o","l","l","o","w","e","r","s">>>>,
       <<<<"?">>, <<"?">>>>,
       <<<<"1",".">>, <<"-"," ">>>>,
       <<<<"h","o","w"," ","t","o">>, <<"t","i","p",":">>>>,
       <<<<"t","h","r","e","a","d">>, <<"t","h","r","e","a","d">>>>,
       <<<<"c","l","i","c","k">>, <<"l","i","n","k"," ","i","n">>>> >>

RECURSIVE TagText(_, _, _, _)
TagText(S, v, i, forward) ==
    IF i > Len(TagPhrases) THEN <<>>
    ELSE LET part == IF i \in S THEN TagPhrases[i][v] \o <<" ">> ELSE <<>>
             rest == TagText(S, v, i + 1, forward)
         IN  IF forward THEN part \o rest ELSE rest \o part

TagTexts ==
    { TagText(S, v, 1, fw) : S \in SUBSET (1..Len(TagPhrases)), v \in 1..2, fw \in BOOLEAN }
      \cup { <<"T","h","r","e","a","d","?">>, <<"A"," ","V","S"," ","B">>, <<"T","I","P",":"," ","C","L","I","C","K">>, <<"h","i">> }

\* mappings for the validator: every mapping onto one header or "(ignore)";
\* every mapping of five keys (the required ones and two metrics) onto three
\* headers or "(ignore)", the other keys ignored; and the mapping of every key
\* to a header of its own, with one key moved to "(ignore)" or to the header
\* of another key
H_own == [k \in FieldKeys |-> candidates[k][1]]
H_third == <<"q">>

ValidatorInputs ==
    [FieldKeys -> {<<>>, H_n}]
      \cup { [k \in FieldKeys |-> IF k \in DOMAIN g THEN g[k] ELSE <<>>] :
                 g \in [{"postId", "text", "createdAt", "likes", "clicks"} -> {<<>>, H_n, H_z, H_third}] }
      \cup { [H_own EXCEPT ![k] = h] : k \in FieldKeys, h \in {<<>>} \cup { H_own[j] : j \in FieldKeys } }

\* header lists for the suggester: up to MaxHeaders headers of a pool with
\* exact and partial synonyms of several keys in different spellings, a
\* header of punctuation only and a header that matches nothing
MaxHeaders == 2

HeaderPool ==
    { H_id, H_PostID, <<"T","w","e","e","t","_","I","D">>, H_tweet, H_time, <<"C","r","e","a","t","e","d">>,
      <<"l","i","k","e","s">>, <<"L","i","k","e"," ","C","o","u","n","t">>, <<"!","!">>, <<"z","z">> }

InitPure ==
    /\ serverIdle /\ importerIdle
    /\ pres = <<>>
    /\ \/ pfn = "norm" /\ parg \in SeqsUpTo(NormChars, MaxLen)
       \/ pfn = "toNumber" /\ parg \in {Null} \cup { Some(t) : t \in SeqsUpTo(NumChars, MaxCell) }
       \/ /\ pfn = "mapCsvRow"
          /\ parg \in { [row |-> (H_n :> t), mapping |-> m] :
                           t \in SeqsUpTo(NumChars, MaxCell), m \in MappingInputs }
       \/ pfn = "formatTag" /\ parg \in TagTexts
       \/ pfn = "mappingCompleteness" /\ parg \in ValidatorInputs
       \/ /\ pfn = "suggestedHeaderForField"
          /\ parg \in { [field |-> k, headers |-> hs] :
                           k \in FieldKeys, hs \in SeqsUpTo(HeaderPool, MaxHeaders) }

\* norm is applied to the input and then to its own result
applyNorm ==
    /\ pfn = "norm" /\ Len(pres) < 2
    /\ pres' = Append(pres, norm(IF pres = <<>> THEN parg ELSE pres[Len(pres)]))
    /\ UNCHANGED <<pfn, parg>>

applyToNumber ==
    /\ pfn = "toNumber" /\ pres = <<>>
    /\ pres' = <<toNumber(parg)>>
    /\ UNCHANGED <<pfn, parg>>

applyMapCsvRow ==
    /\ pfn = "mapCsvRow" /\ pres = <<>>
    /\ pres' = <<mapCsvRow(parg.row, parg.mapping)>>
    /\ UNCHANGED <<pfn, parg>>

\* the classifier as it reaches the datastore: the format_tag among the fields
\* that post.upsert writes for a row with this text
applyFormatTag ==
    /\ pfn = "formatTag" /\ pres = <<>>
    /\ pres' = <<postFields(row(Some(<<"a">>), Some(parg), Some(Y2024), Null, Null)).format_tag>>
    /\ UNCHANGED <<pfn, parg>>

applyMappingCompleteness ==
    /\ pfn = "mappingCompleteness" /\ pres = <<>>
    /\ pres' = <<mappingCompleteness(parg)>>
    /\ UNCHANGED <<pfn, parg>>

applySuggestedHeaderForField ==
    /\ pfn = "suggestedHeaderForField" /\ pres = <<>>
    /\ pres' = <<suggestedHeaderForField(parg.field, parg.headers)>>
    /\ UNCHANGED <<pfn, parg>>

NextPure ==
    /\ UNCHANGED <<serverVars, importerVars>>
    /\ \/ applyNorm \/ applyToNumber \/ applyMapCsvRow
       \/ applyFormatTag \/ applyMappingCompleteness \/ applySuggestedHeaderForField

SpecPure == InitPure /\ [][NextPure]_vars

\* C9 as stated: norm is idempotent, norm(norm(s)) = norm(s) for every header s.
C9_NormIdempotent ==
    (pfn = "norm" /\ Len(pres) = 2) => pres[2] = pres[1]

\* what C10 says a numeric field of the mapped row is
claimedNumber(r, m, k) ==
    LET h == m[k]
        cell == IF h # <<>> /\ h \in DOMAIN r THEN Trim(r[h]) ELSE <<>>
        cleaned == RemoveChars(cell, {",", "%"})
    IN  IF h = <<>> \/ h \notin DOMAIN r \/ cell = <<>> THEN Null
        ELSE IF cleaned = <<>> \/ IsNull(Number(cleaned)) THEN Null
        ELSE Number(cleaned)

\* C10 as stated: each numeric field of mapCsvRow's result is null exactly when
\* its key has no chosen header, or the cell is missing or blank, or the cell
\* without ',' and '%' is empty or is no finite number; otherwise it is the
\* number parsed from the cleaned cell.
C10_NumericCoercion ==
    (pfn = "mapCsvRow" /\ Len(pres) = 1) =>
        \A k \in NumericKeys : pres[1][k] = claimedNumber(parg.row, parg.mapping, k)

\* support for C10: the claim holds of every cell that is not made of ',' and
\* '%' alone, and "1,2" gives 12 and "1.2%" gives 1.2
C10_HoldsUnlessOnlyStripped ==
    (pfn = "mapCsvRow" /\ Len(pres) = 1) =>
        /\ \A k \in NumericKeys :
              RemoveChars(Trim(parg.row[H_n]), {",", "%"}) # <<>> =>
                  pres[1][k] = claimedNumber(parg.row, parg.mapping, k)
        /\ (parg.row[H_n] = <<"1", ",", "2">> /\ parg.mapping.likes = H_n) =>
              pres[1].likes = Some([m |-> 12, e |-> 0])
        /\ (parg.row[H_n] = <<"1", ".", "2", "%">> /\ parg.mapping.likes = H_n) =>
              pres[1].likes = Some([m |-> 12, e |-> 1])
\* ------------------------------------------------------------------------
\* The classifier, the validator and the suggester
\* ------------------------------------------------------------------------
\* the classifier's rules in their fixed order
TagRules == <<"comparison", "milestone", "question", "list", "tip", "story", "cta">>

\* rule i matches the text: one of its phrases occurs in the lower-cased text
\* (a question mark occurs in the text)
RuleMatches(i, text) ==
    \E v \in 1..2 : IsSubstring(TagPhrases[i][v], ToLowerCase(text))

\* the tag of the last matching rule, 'standard' when no rule matches
LastMatchTag(text) ==
    LET M == { i \in DOMAIN TagRules : RuleMatches(i, text) }
    IN  IF M = {} THEN "standard"
        ELSE TagRules[CHOOSE i \in M : \A j \in M : j <= i]

\* C11: the format tag stored for a post is the tag of the last matching rule
\* in the order comparison, milestone, question, list, tip, story, cta, and
\* 'standard' when no rule matches; a text with '?' and 'thread' and no
\* click / link-in phrase is tagged 'story'.
C11_LastMatchWins ==
    (pfn = "formatTag" /\ Len(pres) = 1) =>
        /\ pres[1] = LastMatchTag(parg)
        /\ (RuleMatches(3, parg) /\ RuleMatches(6, parg) /\ ~RuleMatches(7, parg)) =>
              pres[1] = "story"

\* witness of C11: a text matching the question rule and the story rule, and
\* earlier rules too, has been classified as a story
C11_Witness ==
    /\ pfn = "formatTag" /\ Len(pres) = 1
    /\ RuleMatches(1, parg) /\ RuleMatches(3, parg) /\ RuleMatches(6, parg)
    /\ ~RuleMatches(7, parg)
    /\ pres[1] = "story"

\* C12: for every mapping of the 10 keys, requiredOk is true iff postId, text
\* and createdAt each have a non-empty header, and hasDuplicates is true iff
\* two different keys have the same non-empty header; ignored keys never
\* count as duplicates.
C12_ValidatorVerdict ==
    (pfn = "mappingCompleteness" /\ Len(pres) = 1) =>
        /\ pres[1].requiredOk <=>
              (parg.postId # <<>> /\ parg.text # <<>> /\ parg.createdAt # <<>>)
        /\ pres[1].hasDuplicates <=>
              \E k1, k2 \in FieldKeys : k1 # k2 /\ parg[k1] # <<>> /\ parg[k1] = parg[k2]

\* witness of C12: a mapping with the required keys on three headers and the
\* seven others ignored was judged complete and free of duplicates
C12_Witness ==
    /\ pfn = "mappingCompleteness" /\ Len(pres) = 1
    /\ Cardinality({ k \in FieldKeys : parg[k] = <<>> }) = 7
    /\ pres[1].requiredOk /\ ~pres[1].hasDuplicates

\* synonym i of the field equals the normalized header j
ExactMatch(field, hs, i, j) == norm(hs[j]) = candidates[field][i]

\* synonym i of the field and the normalized header j are in a substring
\* relation, in either direction
SubstringMatch(field, hs, i, j) ==
    \/ IsSubstring(candidates[field][i], norm(hs[j]))
    \/ IsSubstring(norm(hs[j]), candidates[field][i])

\* the first header, in header order, matching the earliest synonym, in
\* synonym order, that matches any header
EarliestMatch(field, hs, R(_, _, _, _)) ==
    LET I == { i \in DOMAIN candidates[field] : \E j \in DOMAIN hs : R(field, hs, i, j) }
        i0 == CHOOSE i \in I : \A k \in I : i <= k
        J == { j \in DOMAIN hs : R(field, hs, i0, j) }
    IN  hs[CHOOSE j \in J : \A k \in J : j <= k]

AnyMatch(field, hs, R(_, _, _, _)) ==
    \E i \in DOMAIN candidates[field], j \in DOMAIN hs : R(field, hs, i, j)

\* C13: suggestedHeaderForField returns the empty sentinel or an input header
\* unchanged: with an exact match, the first header matching the earliest
\* exactly matching synonym; else, with a substring match, the first header
\* matching the earliest such synonym; else the sentinel.
C13_SuggestionOrder ==
    (pfn = "suggestedHeaderForField" /\ Len(pres) = 1) =>
        LET k == parg.field
            hs == parg.headers
        IN  /\ pres[1] \in Range(hs) \cup {<<>>}
            /\ pres[1] = IF AnyMatch(k, hs, ExactMatch) THEN EarliestMatch(k, hs, ExactMatch)
                         ELSE IF AnyMatch(k, hs, SubstringMatch)
                              THEN EarliestMatch(k, hs, SubstringMatch)
                         ELSE <<>>

\* witness of C13: the second header was suggested although the first header
\* equals a synonym too (a later one in the synonym list)
C13_Witness ==
    /\ pfn = "suggestedHeaderForField" /\ Len(pres) = 1
    /\ Len(parg.headers) = 2 /\ parg.headers[1] # parg.headers[2]
    /\ pres[1] = parg.headers[2]
    /\ \E i \in DOMAIN candidates[parg.field] :
           ExactMatch(parg.field, parg.headers, i, 1)

\* C20 as stated: suggestedHeaderForField never returns a header whose
\* normalized form is the empty string.
C20_NoEmptyNormalizedSuggestion ==
    (pfn = "suggestedHeaderForField" /\ Len(pres) = 1 /\ pres[1] # <<>>) =>
        norm(pres[1]) # <<>>

\* support for C20: a header whose normalized form is empty is never returned
\* by the exact pass, only by the substring pass
C20_OnlyBySubstringPass ==
    (pfn = "suggestedHeaderForField" /\ Len(pres) = 1 /\ pres[1] # <<>>
       /\ AnyMatch(parg.field, parg.headers, ExactMatch)) =>
        norm(pres[1]) # <<>>

\* ------------------------------------------------------------------------
\* Further properties of the server action
\* ------------------------------------------------------------------------
\* the call's invocation of recomputeAnalytics has ended: by return (the call
\* then returned success) or by an error that left it
recomputeEnded(c) ==
    returned(c) /\ (success(c) \/ call[c].rejected \cap RunOps # {})

\* C14 as stated: every invocation of recomputeAnalytics that has ended has
\* created one RecomputeRun record, and that record has moved from STARTED to
\* SUCCESS or FAILED: no run is left in STARTED.
C14_RunReachesFinalStatus ==
    \A c \in CallIds :
        recomputeEnded(c) =>
            /\ call[c].runId \in DOMAIN runs
            /\ runs[call[c].runId].status \in {"SUCCESS", "FAILED"}

\* support for C14: the rest of the claim holds; an invocation creates at most
\* one record, a record starts as STARTED, changes status at most once and
\* never after it reached SUCCESS or FAILED, and the claim holds of every
\* invocation in which neither recomputeRun.create nor the update to FAILED
\* rejected
C14_AtMostOneMove ==
    [][ /\ Len(runs) <= Len(runs') /\ Len(runs') <= Len(runs) + 1
        /\ \A i \in DOMAIN runs' \ DOMAIN runs : runs'[i].status = "STARTED"
        /\ \A i \in DOMAIN runs :
              runs[i].status # "STARTED" => runs'[i] = runs[i] ]_vars

C14_HoldsWhenRunWritesLand ==
    \A c \in CallIds :
        (recomputeEnded(c) /\ ~failure(c)) =>
            /\ call[c].runId \in DOMAIN runs
            /\ runs[call[c].runId].status \in {"SUCCESS", "FAILED"}
            /\ Len(runs) = 1

\* the snapshot column of each metric of a row
MetricColumn ==
    [ likes |-> "like_count", reposts |-> "repost_count", replies |-> "reply_count",
      quotes |-> "quote_count", impressions |-> "impression_count",
      engagementRate |-> "engagement_rate", clicks |-> "clicks" ]

\* C15: in every datastore state each MetricsSnapshot references an existing
\* Post and an existing Import: the Import created by the call that wrote it
\* and the Post of the postId of one of that call's accepted rows; its
\* captured time is that Import's timestamp and each metric is the row's
\* value, or 0 where the row has null.
C15_SnapshotReferences ==
    \A n \in DOMAIN snapshots :
        LET sn == snapshots[n]
        IN  /\ sn.post_id \in DOMAIN posts
            /\ sn.import_id \in DOMAIN imports
            /\ sn.captured_at = imports[sn.import_id].imported_at
            /\ \E c \in CallIds :
                   /\ call[c].importId = sn.import_id
                   /\ \E j \in AcceptedRows(c) :
                          LET r == call[c].rows[j]
                          IN  /\ posts[sn.post_id].x_post_id = Trim(Val(r.postId))
                              /\ \A k \in DOMAIN MetricColumn :
                                     sn[MetricColumn[k]] =
                                         IF r[k] = Null THEN Num(0) ELSE Val(r[k])

\* witness of C15: two snapshots of one import are persisted, one with likes
\* from its row and clicks defaulted to 0, the other the reverse
C15_Witness ==
    \E n1, n2 \in DOMAIN snapshots :
        /\ snapshots[n1].import_id = snapshots[n2].import_id
        /\ snapshots[n1].like_count = Num(5) /\ snapshots[n1].clicks = Num(0)
        /\ snapshots[n2].like_count = Num(0) /\ snapshots[n2].clicks = Num(1)

\* the number of the batch that row j of a payload falls in, from 0
BatchNo(j) == (j - 1) \div BATCH_SIZE

\* the accepted rows of call c that carry external id x
RowsFor(c, x) == { j \in AcceptedRows(c) : Trim(Val(call[c].rows[j].postId)) = x }

\* the Post fields that row r would write
WrittenBy(p, r) ==
    /\ p.text = (IF r.text = Null THEN <<>> ELSE Val(r.text))
    /\ p.created_at = Val(ParseDate(Val(r.createdAt)))
    /\ p.char_count = Len(p.text)
    /\ p.format_tag = LastMatchTag(p.text)

\* C16, the state part: while a call awaits a batch, the upserts in flight
\* are rows of that batch (offsets i+1 .. i+BATCH_SIZE, i a multiple of
\* BATCH_SIZE), and every accepted row of the earlier batches has completed
\* its upsert; after a successful import the Post of an id holds the values
\* of an accepted row of the last batch that has a row with that id.
C16_State ==
    \A c \in CallIds :
        /\ call[c].pc = "posts" =>
              /\ call[c].i % BATCH_SIZE = 0
              /\ call[c].pending # {}
              /\ \A j \in call[c].pending : BatchNo(j) = call[c].i \div BATCH_SIZE
              /\ Count(call[c].writes, LAMBDA w : w = "post") =
                    Cardinality({ j \in AcceptedRows(c) :
                                    j <= call[c].i + BATCH_SIZE /\ j \notin call[c].pending })
        /\ success(c) =>
              \A x \in { Trim(Val(call[c].rows[j].postId)) : j \in AcceptedRows(c) } :
                  \E p \in DOMAIN posts, j \in RowsFor(c, x) :
                      /\ posts[p].x_post_id = x
                      /\ \A k \in RowsFor(c, x) : BatchNo(k) <= BatchNo(j)
                      /\ WrittenBy(posts[p], call[c].rows[j])

\* C16, the step part: batches are taken in submission order
C16_Step == \A c \in CallIds : call[c].pc = "posts" => call'[c].i >= call[c].i

\* C16: rows are processed in batches of BATCH_SIZE in submission order, a
\* batch's upserts all complete before the next batch is issued, and so of
\* two accepted rows with the same postId in different batches the later
\* batch's row decides the Post.
C16_BatchesInOrder == [](C16_State) /\ [][C16_Step]_vars

\* witness of C16: an import of three rows has succeeded whose rows 1 and 2,
\* in the same batch, carry the same postId and different texts, and the
\* Post holds the text of row 1: within a batch the earlier row may win
C16_Witness ==
    \E c \in CallIds :
        /\ success(c) /\ Len(call[c].rows) = 3
        /\ {1, 2} = RowsFor(c, <<"a">>)
        /\ call[c].rows[1].text # call[c].rows[2].text
        /\ \E p \in DOMAIN posts :
               posts[p].x_post_id = <<"a">> /\ posts[p].text = Val(call[c].rows[1].text)

\* a second reachable case of C16: rows 1 and 3, in different batches, carry
\* the same postId, and the Post holds the text of row 3
C16_LaterBatchWins ==
    \E c \in CallIds :
        /\ success(c) /\ Len(call[c].rows) = 3
        /\ {1, 3} = RowsFor(c, <<"a">>)
        /\ call[c].rows[1].text # call[c].rows[3].text
        /\ \E p \in DOMAIN posts :
               posts[p].x_post_id = <<"a">> /\ posts[p].text = Val(call[c].rows[3].text)

\* the place of each kind of write in the order of steps
StepRank == [user |-> 1, import |-> 2, post |-> 3, snapshot |-> 4, run |-> 5]

\* the writes of a complete run with n accepted rows
FullRun(n) ==
    <<"user", "import">> \o [k \in 1..n |-> "post"]
        \o (IF n > 0 THEN <<"snapshot">> ELSE <<>>) \o <<"run", "run">>

\* C17, the state part: the completed writes of a call are in the order User
\* upsert, Import insert, Post upserts, at most one MetricsSnapshot insert
\* (none without an accepted row), the writes of one recompute invocation;
\* the snapshot insert is issued and written only when every Post upsert has
\* completed, recompute is invoked only after it, and success is returned
\* only after recompute ended, with the whole sequence done.
C17_State ==
    \A c \in CallIds :
        LET w == call[c].writes
            nPosts == Count(w, LAMBDA x : x = "post")
        IN  /\ \A a, b \in DOMAIN w : a < b => StepRank[w[a]] <= StepRank[w[b]]
            /\ IsPrefix(w, FullRun(nPosts)) \/ IsPrefix(w, FullRun(0))
            /\ Count(w, LAMBDA x : x = "snapshot") <= 1
            /\ (call[c].pc = "snap" \/ "snapshot" \in Range(w)) =>
                  /\ call[c].pending = {}
                  /\ nPosts = Cardinality(AcceptedRows(c)) /\ nPosts > 0
            /\ call[c].pc \in {"run_create", "run_success", "run_failed"} =>
                  /\ call[c].pending = {}
                  /\ nPosts = Cardinality(AcceptedRows(c))
                  /\ nPosts > 0 => "snapshot" \in Range(w)
            /\ success(c) =>
                  /\ w = FullRun(Cardinality(AcceptedRows(c)))
                  /\ call[c].runId \in DOMAIN runs
                  /\ runs[call[c].runId].status \in {"SUCCESS", "FAILED"}
                  /\ Len(runs) = 1

\* C17, the step part: the steps happen one at a time, each write is added
\* after the writes before it, the snapshots are written by a call whose Post
\* upserts have all completed, and a RecomputeRun record is created only by a
\* call whose snapshots are written
C17_Step ==
    \A c \in CallIds :
        /\ call[c].pc # "idle" =>
              /\ IsPrefix(call[c].writes, call'[c].writes)
              /\ Len(call'[c].writes) <= Len(call[c].writes) + 1
        /\ (Len(snapshots') > Len(snapshots) /\ call'[c] # call[c]) =>
              /\ call[c].pending = {}
              /\ Count(call[c].writes, LAMBDA x : x = "post") = Cardinality(AcceptedRows(c))
        /\ call'[c].runId # call[c].runId =>
              SnapshotsOfImport(call[c].importId) = Cardinality(AcceptedRows(c))

\* C17: every run of saveImportedPosts performs its steps in the order User
\* upsert, Import insert, all Post upserts, at most one MetricsSnapshot batch
\* insert, one recompute invocation, success result.
C17_StepsInOrder == [](C17_State) /\ [][C17_Step]_vars

\* witness of C17: a run with two accepted rows has gone through all the
\* steps and returned success
C17_Witness ==
    \E c \in CallIds :
        /\ success(c)
        /\ call[c].writes = <<"user", "import", "post", "post", "snapshot", "run", "run">>
        /\ Len(snapshots) = 2

\* a second reachable case of C17: a run with no accepted row wrote no
\* snapshot, invoked recompute and returned success
C17_NoSnapshotRun ==
    \E c \in CallIds :
        /\ success(c) /\ Len(call[c].rows) > 0
        /\ call[c].writes = <<"user", "import", "run", "run">>

\* C18 as stated: once saveImportedPosts has returned, that import performs no
\* further datastore write: no Post upsert of it completes afterwards.
C18_NoWriteAfterReturn ==
    [][ \A c \in CallIds :
          returned(c) => (call'[c].writes = call[c].writes /\ posts' = posts) ]_vars

\* support for C18: a call whose Post upserts did not reject has nothing in
\* flight when it returns and writes nothing afterwards
C18_HoldsWithoutUpsertRejection ==
    [][ \A c \in CallIds :
          (returned(c) /\ "post.upsert" \notin call[c].rejected) =>
              /\ call[c].pending = {}
              /\ call'[c].writes = call[c].writes /\ posts' = posts ]_vars

\* ------------------------------------------------------------------------
\* Further properties of the CSVImporter component
\* ------------------------------------------------------------------------
\* C19 as stated: the loaded headers and rows are those parsed from the file
\* whose name is in fileName, the mapping chooses among that file's headers,
\* and the rows submitted with an import are the mapped rows of the file
\* whose name is submitted with them.
C19_DataIsOfNamedFile ==
    /\ (headers # <<>> \/ rows # <<>>) =>
          \E f \in Files :
              /\ fileName = Some(f.name)
              /\ headers = parsedHeadersOf(f) /\ rows = parsedRowsOf(f)
              /\ \A k \in FieldKeys : mapping[k] \in Range(parsedHeadersOf(f)) \cup {<<>>}
    /\ ~IsNull(sent) =>
          \E f \in Files :
              /\ Val(sent).fileName = Some(f.name)
              /\ Val(sent).rows =
                    [i \in DOMAIN parsedRowsOf(f) |->
                        mapCsvRow(parsedRowsOf(f)[i], Val(sent).mapping)]

\* support for C19: it holds as long as no file was selected during a parse
C19_HoldsWithoutOverlap == ~overlapped => C19_DataIsOfNamedFile

\* the failure of C19 reaches persistence: an import has been submitted with
\* the name of one file and the rows of another
C19_SubmittedUnderWrongName ==
    /\ ~IsNull(sent)
    /\ \E f \in Files :
           /\ Val(sent).fileName = Some(f.name)
           /\ Len(Val(sent).rows) # Len(parsedRowsOf(f))
=============================================================================
